---- MODULE Spec2Model ----
\* A model of deba.js (src/deba.js): the conversion of a DOM tree to Markdown by
\* Extractor.extract, which walks the tree depth first and drives a Document
\* (the block accumulator), and of the Document used directly through its
\* exported methods.
\*
\* Text is a sequence of one-character strings, so that escaping, whitespace
\* normalisation, splitting and trimming are computed character by character.
EXTENDS Integers, Sequences, FiniteSets, TLC

\* ---------------------------------------------------------------- bounds

\* The largest number of nodes of an input tree.
MaxNodes == 5
\* Document used directly: the longest open buffer and the most blocks appended.
MaxSegments == 2
MaxFinishes == 1

\* ------------------------------------------------------------ characters

\* The characters /\s/ matches among those the inputs use.
Whitespace == {" ", "\n", "\t"}
\* The characters a regular expression's "." does not match.
LineTerminators == {"\n"}
Digits == {"0", "1", "2", "3", "4", "5", "6", "7", "8", "9"}
DigitChars == <<"0", "1", "2", "3", "4", "5", "6", "7", "8", "9">>

RECURSIVE Cat(_)
\* Array.prototype.join(""), on a sequence of texts.
Cat(ss) == IF ss = <<>> THEN <<>> ELSE Head(ss) \o Cat(Tail(ss))

\* String.prototype.trim
RECURSIVE TrimLeft(_)
TrimLeft(s) ==
  IF s # <<>> /\ Head(s) \in Whitespace THEN TrimLeft(Tail(s)) ELSE s

RECURSIVE TrimRight(_)
TrimRight(s) ==
  IF s # <<>> /\ s[Len(s)] \in Whitespace
  THEN TrimRight(SubSeq(s, 1, Len(s) - 1))
  ELSE s

Trim(s) == TrimRight(TrimLeft(s))

\* Number to string, as in index + ". "
RECURSIVE NumberToString(_)
NumberToString(n) ==
  IF n < 10 THEN <<DigitChars[n + 1]>>
  ELSE NumberToString(n \div 10) \o <<DigitChars[(n % 10) + 1]>>

\* ------------------------------------------------------------------ Utils

\* Utils.isPresent: text != "" && text.search(/^\s*$/) == -1
IsPresentText(text) ==
  text # <<>> /\ \E i \in 1..Len(text) : text[i] \notin Whitespace

\* The grave accent, which a string of this notation cannot hold.
GraveAccent == "grave"

\* text.replace(/([*<\[\\_GRAVE~])/g, '\\$1'), GRAVE the grave accent
RECURSIVE EscapeAlways(_)
EscapeAlways(text) ==
  IF text = <<>> THEN <<>>
  ELSE IF Head(text) \in {"*", "<", "[", "\\", "_", GraveAccent, "~"}
       THEN <<"\\", Head(text)>> \o EscapeAlways(Tail(text))
       ELSE <<Head(text)>> \o EscapeAlways(Tail(text))

\* The length of the longest run of characters of set S that text starts with.
RECURSIVE RunLength(_, _)
RunLength(text, S) ==
  IF text # <<>> /\ Head(text) \in S THEN 1 + RunLength(Tail(text), S) ELSE 0

\* text.replace(/^(\s*?)([#+\-=>])/g, '$1\\$2')
EscapeBlockStart(text) ==
  LET n == RunLength(text, Whitespace)
  IN IF n < Len(text) /\ text[n + 1] \in {"#", "+", "-", "=", ">"}
     THEN SubSeq(text, 1, n) \o <<"\\">> \o SubSeq(text, n + 1, Len(text))
     ELSE text

\* The index of the first ";" that a "&" followed by .*? reaches, or 0.
RECURSIVE EntityEnd(_, _)
EntityEnd(text, i) ==
  IF i > Len(text) THEN 0
  ELSE IF text[i] = ";" THEN i
  ELSE IF text[i] \in LineTerminators THEN 0
  ELSE EntityEnd(text, i + 1)

\* text.replace(/(&.*?;)/g, '\\$1')
RECURSIVE EscapeEntities(_)
EscapeEntities(text) ==
  IF text = <<>> THEN <<>>
  ELSE IF Head(text) = "&" /\ EntityEnd(text, 2) # 0
       THEN LET j == EntityEnd(text, 2)
            IN <<"\\">> \o SubSeq(text, 1, j)
               \o EscapeEntities(SubSeq(text, j + 1, Len(text)))
       ELSE <<Head(text)>> \o EscapeEntities(Tail(text))

\* text.replace(/^(\s*\d+)\. /g, '$1\\. ')
EscapeOrdinal(text) ==
  LET n == RunLength(text, Whitespace)
      d == RunLength(SubSeq(text, n + 1, Len(text)), Digits)
      k == n + d
  IN IF d > 0 /\ k + 2 <= Len(text) /\ text[k + 1] = "." /\ text[k + 2] = " "
     THEN SubSeq(text, 1, k) \o <<"\\">> \o SubSeq(text, k + 1, Len(text))
     ELSE text

\* Utils.escape
Escape(text) ==
  EscapeOrdinal(EscapeEntities(EscapeBlockStart(EscapeAlways(text))))

\* text.replace(/\s+/g, " ")
RECURSIVE CollapseWhitespace(_)
CollapseWhitespace(text) ==
  IF text = <<>> THEN <<>>
  ELSE IF Head(text) \in Whitespace
       THEN <<" ">> \o CollapseWhitespace(
              SubSeq(text, RunLength(text, Whitespace) + 1, Len(text)))
       ELSE <<Head(text)>> \o CollapseWhitespace(Tail(text))

\* Utils.normalise
Normalise(text) == Trim(CollapseWhitespace(text))

\* ------------------------------------------------------------- segments

\* A segment of the open buffer: a Span object or a plain string. The field
\* "by" is history: the node whose processing pushed the segment (0: none).
\* new Span(text, useRaw)
Span(text, useRaw, by) ==
  [type |-> "Span", text |-> IF useRaw THEN text ELSE Escape(text), by |-> by]

\* A string literal pushed or produced by a block's toArray.
Str(text, by) == [type |-> "String", text |-> text, by |-> by]

\* ----------------------------------------------------------- Stringifier

\* Stringifier.prototype.chunkUpSegments: the maximal runs of segments of one
\* type, each as <<type, texts>>.
RECURSIVE ChunkUpSegments(_)
ChunkUpSegments(segs) ==
  IF segs = <<>> THEN <<>>
  ELSE LET rest == ChunkUpSegments(Tail(segs))
           s == Head(segs)
       IN IF rest # <<>> /\ rest[1][1] = s.type
          THEN <<<<s.type, <<s.text>> \o rest[1][2]>>>> \o Tail(rest)
          ELSE <<<<s.type, <<s.text>>>>>> \o rest

\* Stringifier.prototype.stringify
RECURSIVE StringifyChunks(_)
StringifyChunks(chunks) ==
  IF chunks = <<>> THEN <<>>
  ELSE LET c == Head(chunks)
           text == Cat(c[2])
       IN (IF c[1] = "Span" THEN Normalise(text) ELSE text)
          \o StringifyChunks(Tail(chunks))

Stringify(segs) == StringifyChunks(ChunkUpSegments(segs))

\* ----------------------------------------------------------------- blocks

\* The texts of a buffer: segments.join("") joins each segment's toString().
RECURSIVE SegmentTexts(_)
SegmentTexts(segs) ==
  IF segs = <<>> THEN <<>> ELSE <<Head(segs).text>> \o SegmentTexts(Tail(segs))

\* String.prototype.split(/\n{2,}/g)
RECURSIVE SplitParagraphs(_, _)
SplitParagraphs(text, acc) ==
  IF text = <<>> THEN <<acc>>
  ELSE LET n == RunLength(text, {"\n"})
       IN IF n >= 2
          THEN <<acc>> \o SplitParagraphs(SubSeq(text, n + 1, Len(text)), <<>>)
          ELSE SplitParagraphs(Tail(text), Append(acc, Head(text)))

\* Pre.prototype.toArray: the normalised, non-blank paragraphs.
RECURSIVE PreParagraphs(_)
PreParagraphs(nodes) ==
  IF nodes = <<>> THEN <<>>
  ELSE LET normalised == Normalise(Head(nodes))
       IN (IF IsPresentText(normalised) THEN <<normalised>> ELSE <<>>)
          \o PreParagraphs(Tail(nodes))

\* Array.prototype.join("\n\n")
RECURSIVE JoinBlankLine(_)
JoinBlankLine(parts) ==
  IF Len(parts) <= 1 THEN Cat(parts)
  ELSE Head(parts) \o <<"\n", "\n">> \o JoinBlankLine(Tail(parts))

PreToArray(segs) ==
  LET result == PreParagraphs(SplitParagraphs(Cat(SegmentTexts(segs)), <<>>))
  IN IF result # <<>>
     THEN <<Str(JoinBlankLine(result) \o <<"\n", "\n">>, 0)>>
     ELSE <<>>

\* "######".substr(-level)
Hashes(level) == SubSeq(<<"#", "#", "#", "#", "#", "#">>, 1, level)

\* Heading.prototype.toArray
HeadingToArray(segs, level) ==
  <<Str(Hashes(level) \o <<" ">>, 0)>> \o segs \o <<Str(<<"\n", "\n">>, 0)>>

\* ListItem.prototype.prefix; index 0 stands for null.
ListItemPrefix(index) ==
  IF index = 0 THEN <<"*", " ">> ELSE NumberToString(index) \o <<".", " ">>

\* The end of an item as it would be if every item were taken for the last.
ItemEndAlwaysLast(last) == <<"\n", "\n">>

\* "\n" + (this.last ? "\n" : "")
ItemEnd(last) == IF last THEN <<"\n", "\n">> ELSE <<"\n">>

\* ListItem.prototype.toArray
ListItemToArray(segs, last, index) ==
  <<Str(ListItemPrefix(index), 0)>> \o segs \o <<Str(ItemEnd(last), 0)>>

\* DefinitionTerm.prototype.toArray
DefinitionTermToArray(segs) == segs \o <<Str(<<":", "\n">>, 0)>>

\* DefinitionDescription.prototype.toArray
DefinitionDescriptionToArray(segs, last) == segs \o <<Str(ItemEnd(last), 0)>>

\* Paragraph.prototype.toArray
ParagraphToArray(segs) == segs \o <<Str(<<"\n", "\n">>, 0)>>

\* --------------------------------------------------------------- Document

\* The Document object, with the exception it may have thrown and its history:
\*   content, segments, args   the fields of the object; args is the array of
\*                             the pending block: its constructor's name, then
\*                             the constructor's arguments
\*   threw                     an exception left one of its methods
\*   ops      (history)        the calls made on it by the step just taken
\*   blocks   (history)        one record per block appended to content: was
\*                             it prefixed, which nodes pushed its segments,
\*                             its type, the node that started it, its text
\*   owner    (history)        the node whose processing started the open block
NewDocument ==
  [content |-> <<>>, segments |-> <<>>, args |-> <<>>, threw |-> FALSE,
   ops |-> <<>>, blocks |-> <<>>, owner |-> 0]

\* The nodes whose processing pushed the segments of a buffer.
Pushers(segs) == {segs[i].by : i \in 1..Len(segs)}

\* The functions a block can be constructed from.
BlockTypes ==
  {"Paragraph", "Heading", "ListItem", "DefinitionTerm",
   "DefinitionDescription", "Pre"}

\* An argument of the pending block, or what "undefined" behaves as.
ArgOr(args, i, default) == IF i <= Len(args) THEN args[i] ELSE default

\* isPresent as it would be if it took any Span with text for present,
\* whitespace or not.
IsPresentAnySpan(segments) ==
  \E i \in 1..Len(segments) :
    segments[i].type = "Span" /\ segments[i].text # <<>>

\* Document.prototype.isPresent
IsPresent(segments) ==
  \E i \in 1..Len(segments) :
    segments[i].type = "Span" /\ IsPresentText(segments[i].text)

\* block.toArray() of new blockType(segments, ...args), args without its type.
BlockToArray(blockType, segs, rest) ==
  CASE blockType = "Paragraph" -> ParagraphToArray(segs)
    [] blockType = "Heading" -> HeadingToArray(segs, ArgOr(rest, 1, 6))
    [] blockType = "ListItem" ->
         ListItemToArray(segs, ArgOr(rest, 1, FALSE), ArgOr(rest, 2, 0))
    [] blockType = "DefinitionTerm" -> DefinitionTermToArray(segs)
    [] blockType = "DefinitionDescription" ->
         DefinitionDescriptionToArray(segs, ArgOr(rest, 1, FALSE))
    [] blockType = "Pre" -> PreToArray(segs)

\* Document.prototype.push
DocPush(D, segment) ==
  IF D.threw THEN D
  ELSE [D EXCEPT !.segments = Append(@, segment),
                 !.ops = Append(@, [op |-> "push", seg |-> segment])]

\* Document.prototype.start; args is the array given, <<>> when none is
\* (args || []).
DocStart(D, args, by) ==
  IF D.threw THEN D
  ELSE [D EXCEPT !.segments = <<>>, !.args = args, !.owner = by]

\* "> " when the extractor is in a blockquote
QuotePrefix(inBq) == IF inBq THEN <<">", " ">> ELSE <<>>

\* Document.prototype.blockContent's changes of this.args: shift, then unshift
\* of the segments and of null.
ArgsAfterBlockContent(D) ==
  <<"null", D.segments>> \o (IF D.args = <<>> THEN <<>> ELSE Tail(D.args))

\* Document.prototype.finish with Document.prototype.blockContent.
\* Function.prototype.bind.apply throws a TypeError when the block type is not
\* a function, and Stringifier.chunkUpSegments when toArray() returned [].
DocFinish(D, inBq) ==
  IF D.threw THEN D
  ELSE IF ~IsPresent(D.segments) THEN D
  ELSE
    LET quoted == D.content \o QuotePrefix(inBq)
        blockType == ArgOr(D.args, 1, "undefined")
        array == IF blockType \in BlockTypes
                 THEN BlockToArray(blockType, D.segments, Tail(D.args))
                 ELSE <<>>
    IN IF array = <<>>
       THEN [D EXCEPT !.content = quoted, !.args = ArgsAfterBlockContent(D),
                      !.threw = TRUE]
       ELSE [D EXCEPT !.content = quoted \o Stringify(array),
                      !.args = ArgsAfterBlockContent(D),
                      !.blocks = Append(@,
                        [prefixed |-> inBq, by |-> Pushers(D.segments),
                         type |-> blockType, owner |-> D.owner,
                         text |-> Stringify(array)])]

\* Document.prototype.break
DocBreak(D, args, inBq, by) ==
  IF D.threw THEN D
  ELSE LET F == DocFinish(D, inBq)
           S == DocStart(F, args, by)
       IN [S EXCEPT !.ops = Append(D.ops, [op |-> "break", seg |-> Str(<<>>, by)])]

\* ------------------------------------------------------------------ input

\* A node of the DOM tree. Nodes are numbered in document order from 1, the
\* node extract is given; parent is 0 for it.
\*   tag     nodeName in lower case ("#text" for a text node)
\*   text    textContent of a text node, value of a textarea
\*   href    href of an anchor;  src, alt  of an image
\*   start   the start attribute of an ol (0: none)
\*   cls     the class of an element, which a selector of options.exclude names
\*   box     the element's geometry, as the layout engine reports it
Node(tag, text) ==
  [tag |-> tag, text |-> text, href |-> <<>>, src |-> <<>>, alt |-> <<>>,
   start |-> 0, cls |-> "", box |-> "inside", parent |-> 0]

Text(text) == Node("#text", text)
Element(tag) == Node(tag, <<>>)

\* Nodes without child nodes that process would visit: text nodes, void
\* elements, and textarea, whose value is read instead.
LeafTags == {"#text", "#comment", "br", "img", "textarea"}

\* The geometry of an element: offsetWidth, offsetHeight, the number of client
\* rectangles, getBoundingClientRect(), scrollWidth and scrollHeight.
Box(name) ==
  CASE name = "inside" ->
         [offsetWidth |-> 2, offsetHeight |-> 2, rects |-> 1, left |-> 0,
          right |-> 2, top |-> 0, bottom |-> 2, scrollWidth |-> 4,
          scrollHeight |-> 2]
    [] name = "none" ->
         [offsetWidth |-> 0, offsetHeight |-> 0, rects |-> 0, left |-> 0,
          right |-> 0, top |-> 0, bottom |-> 0, scrollWidth |-> 0,
          scrollHeight |-> 0]
    [] name = "offpage" ->
         [offsetWidth |-> 2, offsetHeight |-> 2, rects |-> 1, left |-> 0 - 9,
          right |-> 0 - 7, top |-> 0, bottom |-> 2, scrollWidth |-> 4,
          scrollHeight |-> 3]

\* The ancestors of node n in tree t, nearest first.
RECURSIVE Ancestors(_, _)
Ancestors(t, n) ==
  IF t[n].parent = 0 THEN <<>>
  ELSE <<t[n].parent>> \o Ancestors(t, t[n].parent)

AncestorSet(t, n) == {Ancestors(t, n)[i] : i \in 1..Len(Ancestors(t, n))}

\* The ids among 1..n of set S, in increasing order.
RECURSIVE Ordered(_, _)
Ordered(S, n) ==
  IF n = 0 THEN <<>>
  ELSE Ordered(S, n - 1) \o (IF n \in S THEN <<n>> ELSE <<>>)

\* node.childNodes
ChildNodes(t, n) == Ordered({m \in 1..Len(t) : t[m].parent = n}, Len(t))

\* The descendants of n, in document order.
Descendants(t, n) == Ordered({m \in 1..Len(t) : n \in AncestorSet(t, m)}, Len(t))

IsElementNode(node) == node.tag \notin {"#text", "#comment"}

\* node.textContent (the text property of a tree without layout engine; one
\* with a layout engine has innerText, modelled by the same text).
RECURSIVE TextOfNodes(_, _)
TextOfNodes(t, ids) ==
  IF ids = <<>> THEN <<>>
  ELSE (IF t[Head(ids)].tag \in {"#text", "textarea"}
        THEN t[Head(ids)].text ELSE <<>>) \o TextOfNodes(t, Tail(ids))

TextContent(t, n) == TextOfNodes(t, <<n>> \o Descendants(t, n))

\* node.nextElementSibling == null
NoNextElementSibling(t, n) ==
  ~\E m \in 1..Len(t) :
     m > n /\ t[m].parent = t[n].parent /\ IsElementNode(t[m])

\* The count as it would be with previousSibling for previousElementSibling.
PreviousSiblings(t, n) ==
  Cardinality({m \in 1..Len(t) : m < n /\ t[m].parent = t[n].parent})

\* The number of times sibling = sibling.previousElementSibling is not null.
PreviousElementSiblings(t, n) ==
  Cardinality({m \in 1..Len(t) :
     m < n /\ t[m].parent = t[n].parent /\ IsElementNode(t[m])})

\* The trees of n nodes over the given node kinds, the first node of a kind of
\* roots: a tree of k nodes is one of k - 1 nodes with a last node added under
\* its last node or under an ancestor of it, whichever can have children.
RECURSIVE TreesOfSize(_, _, _)
TreesOfSize(kinds, roots, n) ==
  IF n = 1 THEN {<<k>> : k \in roots}
  ELSE UNION {
         {Append(t, [k EXCEPT !.parent = p]) :
            k \in kinds,
            p \in {q \in {n - 1} \cup AncestorSet(t, n - 1) :
                     t[q].tag \notin LeafTags}}
         : t \in TreesOfSize(kinds, roots, n - 1)}

\* The trees of at most n nodes.
Trees(kinds, roots, n) == UNION {TreesOfSize(kinds, roots, k) : k \in 1..n}

\* -------------------------------------------------------------- Extractor

VARIABLES
  tree,           \* the input: the node given to extract and its descendants
  options,        \* this.options, with the defaults filled in
  isDomReal,      \* the tree is backed by a layout engine (!document.hidden)
  pc,             \* "start", "run", "done", "threw"; "client" when the
                  \* Document is used directly
  stack,          \* the calls of process in progress: per call the node, its
                  \* child nodes not yet processed and what follows them
  document,       \* this.document
  justAppendedBr, \* this.justAppendedBr
  inBlockquote,   \* this.inBlockquote
  groupWithNext,  \* this.groupWithNext
  visited,        \* history: the nodes process has been called on
  result          \* what extract returned

vars ==
  <<tree, options, isDomReal, pc, stack, document, justAppendedBr,
    inBlockquote, groupWithNext, visited, result>>

HEADING_TAGS == {"h1", "h2", "h3", "h4", "h5", "h6"}

BLOCK_INITIATING_TAGS ==
  {"address", "article", "aside", "body", "blockquote", "div", "dd", "dl",
   "dt", "figure", "footer", "header", "li", "main", "nav", "ol", "p", "pre",
   "section", "td", "th", "ul"}

SKIP_TAGS == {"head", "style", "script", "noscript"}

\* this.ENHANCERS
IsEnhancer(tag) == tag \in {"b", "strong", "i", "em"}
Enhancer(tag) == IF tag \in {"b", "strong"} THEN <<"*", "*">> ELSE <<"*">>

\* parseInt(nodeName[1])
HeadingLevel(tag) ==
  CASE tag = "h1" -> 1 [] tag = "h2" -> 2 [] tag = "h3" -> 3
    [] tag = "h4" -> 4 [] tag = "h5" -> 5 [] tag = "h6" -> 6

\* node.querySelectorAll(this.BREAK_TAGS_QUERY).length
HasBreakTagDescendant(t, n) ==
  \E i \in 1..Len(Descendants(t, n)) :
    t[Descendants(t, n)[i]].tag \in HEADING_TAGS \cup BLOCK_INITIATING_TAGS

\* The greatest of a set of numbers and 0 (tallestHeight starts at 0).
Tallest(S) == CHOOSE x \in S \cup {0} : \A y \in S \cup {0} : y <= x

\* Extractor.prototype.getPageBounds, the node given being the documentElement;
\* "null" when there is no layout engine or hidden elements are kept.
PageBounds(t, opts, real) ==
  IF ~real \/ ~opts.excludeHidden
  THEN [null |-> TRUE, top |-> 0, right |-> 0, bottom |-> 0, left |-> 0]
  ELSE [null |-> FALSE, top |-> 0, right |-> Box(t[1].box).scrollWidth,
        bottom |-> Tallest({Box(t[m].box).scrollHeight :
                     m \in {k \in 2..Len(t) : IsElementNode(t[k])}}),
        left |-> 0]

\* Extractor.prototype.isElementVisible
IsElementVisible(t, n, opts, real) ==
  IF ~real THEN TRUE
  ELSE IF ~IsElementNode(t[n]) THEN TRUE
  ELSE LET b == Box(t[n].box)
           pageBounds == PageBounds(t, opts, real)
       IN IF b.offsetWidth = 0 /\ b.offsetHeight = 0 /\ b.rects = 0 THEN FALSE
          ELSE /\ b.left < pageBounds.right /\ b.right > pageBounds.left
               /\ b.top < pageBounds.bottom /\ b.bottom > pageBounds.top

\* node.matches(selector) for some selector of options.exclude
MatchesExclude(node, opts) == node.cls \in opts.exclude

\* The checks as they would be without the one of line 317.
SkipCheckKeepingHidden(t, n, opts, real) ==
  IF t[n].tag \in SKIP_TAGS THEN "skip"
  ELSE IF opts.hasExclude /\ opts.exclude # {} /\ ~IsElementNode(t[n])
       THEN "throw"
  ELSE IF opts.hasExclude /\ MatchesExclude(t[n], opts) THEN "skip"
  ELSE "visit"

\* The checks process starts with: "skip" when it returns at once, "throw"
\* when node.matches is called on a node that is no element (it has no such
\* method), "visit" otherwise.
SkipCheck(t, n, opts, real) ==
  IF t[n].tag \in SKIP_TAGS THEN "skip"
  ELSE IF opts.hasExclude /\ opts.exclude # {} /\ ~IsElementNode(t[n])
       THEN "throw"
  ELSE IF opts.hasExclude /\ MatchesExclude(t[n], opts) THEN "skip"
  ELSE IF opts.excludeHidden /\ ~IsElementVisible(t, n, opts, real) THEN "skip"
  ELSE "visit"

\* The branch of process a visited node takes, in the order of its tests.
Branch(t, n, opts, pendingBr) ==
  LET tag == t[n].tag
  IN CASE tag = "br" /\ pendingBr -> "brRepeat"
       [] tag = "br" /\ ~pendingBr -> "br"
       [] OTHER ->
          IF tag = "#text" THEN "text"
          ELSE IF IsEnhancer(tag) THEN "enhancer"
          ELSE IF opts.images /\ tag = "img" THEN "img"
          ELSE IF opts.links /\ tag = "a" THEN "a"
          ELSE IF tag = "blockquote" THEN "blockquote"
          ELSE IF tag = "li" THEN "li"
          ELSE IF tag = "dt" THEN "dt"
          ELSE IF tag = "dd" THEN "dd"
          ELSE IF tag = "pre" THEN "pre"
          ELSE IF tag = "textarea" THEN "textarea"
          ELSE IF tag \in BLOCK_INITIATING_TAGS THEN "block"
          ELSE IF tag \in HEADING_TAGS THEN "heading"
          ELSE "flatten"

\* The call of process in progress, the node processChildren hands to process
\* next, and the stack with that node taken.
Top == stack[Len(stack)]
NextChild == Head(Top.kids)
Taken == [stack EXCEPT ![Len(stack)].kids = Tail(@)]
\* The stack once process(n) has reached processChildren(n).
Entered(n, after) ==
  Append(Taken, [node |-> n, kids |-> ChildNodes(tree, n), after |-> after])
Returned == SubSeq(stack, 1, Len(stack) - 1)

\* process(NextChild) is called and passes the skip checks into branch b.
Calls(b) ==
  /\ pc = "run"
  /\ Top.kids # <<>>
  /\ SkipCheck(tree, NextChild, options, isDomReal) = "visit"
  /\ Branch(tree, NextChild, options, justAppendedBr) = b

\* processChildren(Top.node) has processed every child; what follows is a.
ChildrenDone(a) ==
  /\ pc = "run"
  /\ Top.kids = <<>>
  /\ Top.after = a

\* The Document at the start of a step.
Doc == [document EXCEPT !.ops = <<>>]

\* Lines 332-336 as they would be without the push.
AfterBrNoNewline(D, n) == D

\* Lines 332-336: a node that is no br, after a br: one "\n" is pushed.
AfterBr(D, n) ==
  IF justAppendedBr THEN DocPush(D, Str(<<"\n">>, n)) ELSE D

\* The state a step of process leaves.
Leaves(D, stk, br, bq, group) ==
  /\ document' = D
  /\ pc' = IF D.threw THEN "threw" ELSE pc
  /\ stack' = stk
  /\ justAppendedBr' = br
  /\ inBlockquote' = bq
  /\ groupWithNext' = group
  /\ UNCHANGED <<tree, options, isDomReal, result>>

\* ---------------------------------------------------------------- actions

\* Extractor.prototype.extract up to the call of process: the flags are
\* cleared, the Document is made, and the loop over this.nodes (the one node
\* given) breaks a paragraph before it processes the node.
Extract ==
  /\ pc = "start"
  /\ pc' = "run"
  /\ justAppendedBr' = FALSE
  /\ inBlockquote' = FALSE
  /\ groupWithNext' = FALSE
  /\ document' = DocBreak(DocStart(NewDocument, <<>>, 0), <<"Paragraph">>, FALSE, 0)
  /\ stack' = <<[node |-> 0, kids |-> <<1>>, after |-> "extract"]>>
  /\ visited' = {}
  /\ UNCHANGED <<tree, options, isDomReal, result>>

\* Extractor.prototype.extract after process returned: the paragraph is
\* broken and the trimmed content returned.
ExtractReturn ==
  /\ ChildrenDone("extract")
  /\ LET D == DocBreak(Doc, <<"Paragraph">>, inBlockquote, 0)
     IN /\ document' = D
        /\ pc' = "done"
        /\ result' = Trim(D.content)
  /\ stack' = <<>>
  /\ UNCHANGED <<tree, options, isDomReal, justAppendedBr, inBlockquote,
                 groupWithNext, visited>>

\* process(node), lines 309-317: a skipped node.
ProcessSkip ==
  /\ pc = "run"
  /\ Top.kids # <<>>
  /\ SkipCheck(tree, NextChild, options, isDomReal) = "skip"
  /\ visited' = visited \cup {NextChild}
  /\ Leaves(Doc, Taken, justAppendedBr, inBlockquote, groupWithNext)

\* process(node), line 313: node.matches is not a function of a text node.
ProcessNoMatches ==
  /\ pc = "run"
  /\ Top.kids # <<>>
  /\ SkipCheck(tree, NextChild, options, isDomReal) = "throw"
  /\ visited' = visited \cup {NextChild}
  /\ pc' = "threw"
  /\ document' = Doc
  /\ stack' = Taken
  /\ UNCHANGED <<tree, options, isDomReal, result, justAppendedBr,
                 inBlockquote, groupWithNext>>

\* process(br) with a br pending, lines 320-327.
ProcessBrRepeat ==
  /\ Calls("brRepeat")
  /\ visited' = visited \cup {NextChild}
  /\ Leaves(DocBreak(Doc, <<"Paragraph">>, inBlockquote, NextChild), Taken,
            FALSE, inBlockquote, groupWithNext)

\* process(br) with none pending, lines 328-330, then through to line 448.
ProcessBr ==
  /\ Calls("br")
  /\ visited' = visited \cup {NextChild}
  /\ Leaves(Doc, Entered(NextChild, "none"), TRUE, inBlockquote, groupWithNext)

\* process(text node), lines 338-342.
ProcessText ==
  /\ Calls("text")
  /\ visited' = visited \cup {NextChild}
  /\ LET n == NextChild
     IN Leaves(DocPush(AfterBr(Doc, n), Span(tree[n].text, FALSE, n)), Taken,
               FALSE, inBlockquote, groupWithNext)

\* process(b, strong, i, em), lines 344-350.
ProcessEnhancer ==
  /\ Calls("enhancer")
  /\ visited' = visited \cup {NextChild}
  /\ LET n == NextChild
         D == AfterBr(Doc, n)
     IN IF ~IsPresentText(TextContent(tree, n))
        THEN Leaves(D, Taken, FALSE, inBlockquote, groupWithNext)
        ELSE Leaves(DocPush(D, Span(Enhancer(tree[n].tag), TRUE, n)),
                    Entered(n, "enhancer"), FALSE, inBlockquote, groupWithNext)

\* process(img), lines 356-359.
ProcessImg ==
  /\ Calls("img")
  /\ visited' = visited \cup {NextChild}
  /\ LET n == NextChild
         text == <<"!", "[">> \o Escape(tree[n].alt) \o <<"]", "(">>
                 \o tree[n].src \o <<")">>
     IN Leaves(DocPush(AfterBr(Doc, n), Span(text, TRUE, n)), Taken,
               FALSE, inBlockquote, groupWithNext)

\* process(a), lines 361-370.
ProcessAnchor ==
  /\ Calls("a")
  /\ visited' = visited \cup {NextChild}
  /\ LET n == NextChild
         D == AfterBr(Doc, n)
     IN IF ~IsPresentText(TextContent(tree, n))
        THEN Leaves(D, Taken, FALSE, inBlockquote, groupWithNext)
        ELSE IF HasBreakTagDescendant(tree, n)
        THEN Leaves(D, Entered(n, "none"), FALSE, inBlockquote, groupWithNext)
        ELSE Leaves(DocPush(D, Span(<<"[">>, TRUE, n)), Entered(n, "link"),
                    FALSE, inBlockquote, groupWithNext)

\* process(blockquote), lines 376-380, with processFlowContent's line 452.
ProcessBlockquote ==
  /\ Calls("blockquote")
  /\ visited' = visited \cup {NextChild}
  /\ LET n == NextChild
     IN Leaves(DocBreak(AfterBr(Doc, n), <<"Paragraph">>, TRUE, n),
               Entered(n, "blockquote"), FALSE, TRUE, TRUE)

\* process(li), lines 387-396, with processFlowContent's line 452.
ProcessLi ==
  /\ Calls("li")
  /\ visited' = visited \cup {NextChild}
  /\ LET n == NextChild
         index == IF tree[n].parent # 0 /\ tree[tree[n].parent].tag = "ol"
                  THEN 1 + PreviousElementSiblings(tree, n)
                  ELSE 0
         args == <<"ListItem", NoNextElementSibling(tree, n), index>>
     IN Leaves(DocBreak(AfterBr(Doc, n), args, inBlockquote, n),
               Entered(n, "flow"), FALSE, inBlockquote, TRUE)

\* process(dt), lines 401-403, with processFlowContent's line 452.
ProcessDt ==
  /\ Calls("dt")
  /\ visited' = visited \cup {NextChild}
  /\ LET n == NextChild
     IN Leaves(DocBreak(AfterBr(Doc, n), <<"DefinitionTerm">>, inBlockquote, n),
               Entered(n, "flow"), FALSE, inBlockquote, TRUE)

\* process(dd), lines 407-409, with processFlowContent's line 452.
ProcessDd ==
  /\ Calls("dd")
  /\ visited' = visited \cup {NextChild}
  /\ LET n == NextChild
         args == <<"DefinitionDescription", NoNextElementSibling(tree, n)>>
     IN Leaves(DocBreak(AfterBr(Doc, n), args, inBlockquote, n),
               Entered(n, "flow"), FALSE, inBlockquote, TRUE)

\* process(pre), lines 413-415.
ProcessPre ==
  /\ Calls("pre")
  /\ visited' = visited \cup {NextChild}
  /\ LET n == NextChild
     IN Leaves(DocBreak(AfterBr(Doc, n), <<"Pre">>, inBlockquote, n),
               Entered(n, "break"), FALSE, inBlockquote, groupWithNext)

\* process(textarea), lines 421-427.
ProcessTextarea ==
  /\ Calls("textarea")
  /\ visited' = visited \cup {NextChild}
  /\ LET n == NextChild
         opened == DocBreak(AfterBr(Doc, n), <<"Pre">>, inBlockquote, n)
         pushed == DocPush(opened, Span(tree[n].text, FALSE, n))
     IN Leaves(DocBreak(pushed, <<"Paragraph">>, inBlockquote, n), Taken,
               FALSE, inBlockquote, groupWithNext)

\* The leading break of a block-initiating element, lines 431-432.
LeadingBreak(D, n) ==
  IF groupWithNext THEN D ELSE DocBreak(D, <<"Paragraph">>, inBlockquote, n)

\* process(block-initiating element), lines 430-433.
ProcessBlock ==
  /\ Calls("block")
  /\ visited' = visited \cup {NextChild}
  /\ LET n == NextChild
     IN Leaves(LeadingBreak(AfterBr(Doc, n), n), Entered(n, "break"),
               FALSE, inBlockquote, FALSE)

\* process(h1 .. h6), lines 439-441.
ProcessHeading ==
  /\ Calls("heading")
  /\ visited' = visited \cup {NextChild}
  /\ LET n == NextChild
         args == <<"Heading", HeadingLevel(tree[n].tag)>>
     IN Leaves(DocBreak(AfterBr(Doc, n), args, inBlockquote, n),
               Entered(n, "break"), FALSE, inBlockquote, groupWithNext)

\* process(any other node), line 448.
ProcessFlatten ==
  /\ Calls("flatten")
  /\ visited' = visited \cup {NextChild}
  /\ Leaves(AfterBr(Doc, NextChild), Entered(NextChild, "none"), FALSE,
            inBlockquote, groupWithNext)

\* process(b, strong, i, em) after processChildren, lines 351-353.
ReturnEnhancer ==
  /\ ChildrenDone("enhancer")
  /\ UNCHANGED visited
  /\ Leaves(DocPush(Doc, Span(Enhancer(tree[Top.node].tag), TRUE, Top.node)),
            Returned, justAppendedBr, inBlockquote, groupWithNext)

\* process(a) after processChildren, lines 371-373.
ReturnLink ==
  /\ ChildrenDone("link")
  /\ UNCHANGED visited
  /\ LET text == <<"]", "(">> \o tree[Top.node].href \o <<")">>
     IN Leaves(DocPush(Doc, Span(text, TRUE, Top.node)), Returned,
               justAppendedBr, inBlockquote, groupWithNext)

\* processFlowContent after processChildren, lines 454-455, and the return
\* of process(li), process(dt), process(dd).
ReturnFlow ==
  /\ ChildrenDone("flow")
  /\ UNCHANGED visited
  /\ Leaves(DocBreak(Doc, <<"Paragraph">>, inBlockquote, Top.node), Returned,
            justAppendedBr, inBlockquote, FALSE)

\* processFlowContent after processChildren, lines 454-455, and
\* process(blockquote) after it, lines 382-384.
ReturnBlockquote ==
  /\ ChildrenDone("blockquote")
  /\ UNCHANGED visited
  /\ Leaves(DocBreak(Doc, <<"Paragraph">>, inBlockquote, Top.node), Returned,
            justAppendedBr, FALSE, FALSE)

\* process(pre), process(block-initiating element), process(h1 .. h6) after
\* processChildren: lines 416, 434, 442.
ReturnBreak ==
  /\ ChildrenDone("break")
  /\ UNCHANGED visited
  /\ Leaves(DocBreak(Doc, <<"Paragraph">>, inBlockquote, Top.node), Returned,
            justAppendedBr, inBlockquote, groupWithNext)

\* process returns after processChildren with nothing more to do: lines 366
\* and 448.
ReturnPlain ==
  /\ ChildrenDone("none")
  /\ UNCHANGED visited
  /\ Leaves(Doc, Returned, justAppendedBr, inBlockquote, groupWithNext)

Next ==
  \/ Extract
  \/ ExtractReturn
  \/ ProcessSkip
  \/ ProcessNoMatches
  \/ ProcessBrRepeat
  \/ ProcessBr
  \/ ProcessText
  \/ ProcessEnhancer
  \/ ProcessImg
  \/ ProcessAnchor
  \/ ProcessBlockquote
  \/ ProcessLi
  \/ ProcessDt
  \/ ProcessDd
  \/ ProcessPre
  \/ ProcessTextarea
  \/ ProcessBlock
  \/ ProcessHeading
  \/ ProcessFlatten
  \/ ReturnEnhancer
  \/ ReturnLink
  \/ ReturnFlow
  \/ ReturnBlockquote
  \/ ReturnBreak
  \/ ReturnPlain

\* ----------------------------------------------------------------- inputs

\* Object.assign({ images: true, links: true, excludeHidden: true }, options);
\* hasExclude: options.exclude is given, exclude: the classes its selectors
\* name.
DefaultOptions ==
  [images |-> TRUE, links |-> TRUE, excludeHidden |-> TRUE,
   hasExclude |-> FALSE, exclude |-> {}]

TextA == Text(<<"a">>)
TextB == Text(<<"b">>)
Blank == Text(<<" ">>)

\* A link, an image, a text field.
Anchor == [Element("a") EXCEPT !.href = <<"u">>]
Image(alt) == [Element("img") EXCEPT !.src = <<"s">>, !.alt = alt]
Textarea == [Element("textarea") EXCEPT !.text = <<"v">>]

\* A family of inputs: the kinds of node of its trees, the options extract is
\* called with on them, whether a layout engine backs them, and how many nodes
\* fewer than MaxNodes its trees have at most. Any kind is the root's.
Family(kinds, opts, real, fewer) ==
  [kinds |-> kinds, roots |-> kinds, options |-> opts, real |-> real,
   fewer |-> fewer]

Scenarios ==
  { \* a ul is given: unordered lists
    [Family({TextA, TextB, Element("ul"), Element("li")}, DefaultOptions,
            FALSE, 0) EXCEPT !.roots = {Element("ul")}],
    \* ordered lists with a start attribute, whose children are not all li
    Family({TextA, Element("li"), [Element("ol") EXCEPT !.start = 3]},
           DefaultOptions, FALSE, 1),
    \* blockquotes and blocks
    Family({TextA, Element("blockquote"), Element("div")}, DefaultOptions,
           FALSE, 1),
    \* line breaks, emphasis, blank text
    Family({TextA, Blank, Element("br"), Element("b"), Element("p")},
           DefaultOptions, FALSE, 1),
    \* links around line breaks and text fields
    Family({TextA, Element("br"), Anchor, Textarea}, DefaultOptions, FALSE, 1),
    \* links around headings
    Family({TextA, Element("h2"), Anchor}, DefaultOptions, FALSE, 1),
    \* links and images switched off
    Family({TextA, Anchor, Image(<<"a">>)},
           [DefaultOptions EXCEPT !.links = FALSE, !.images = FALSE], FALSE, 1),
    \* skipped tags
    Family({TextA, Element("script"), Element("div")}, DefaultOptions, FALSE, 1),
    \* elements without boxes, with a layout engine
    Family({TextA, Element("div"), [Element("div") EXCEPT !.box = "none"]},
           DefaultOptions, TRUE, 1),
    \* elements off the page, with a layout engine
    Family({TextA, Element("div"), [Element("div") EXCEPT !.box = "offpage"]},
           DefaultOptions, TRUE, 1),
    \* hidden elements kept
    Family({TextA, [Element("div") EXCEPT !.box = "none"]},
           [DefaultOptions EXCEPT !.excludeHidden = FALSE], TRUE, 1),
    \* excluded selectors
    Family({TextA, Image(<<"a">>), Element("div"),
            [Element("div") EXCEPT !.cls = "x"]},
           [DefaultOptions EXCEPT !.hasExclude = TRUE, !.exclude = {"x"}],
           FALSE, 1),
    \* preformatted text and headings
    Family({Text(<<"a", " ", " ", "b", "\n", "\n", "c">>), Text(<<">">>),
            Element("pre"), Element("h2")}, DefaultOptions, FALSE, 1),
    \* definition lists
    Family({TextA, Element("dt"), Element("dd")}, DefaultOptions, FALSE, 1),
    \* escaped text, images, comments, inline elements
    Family({Text(<<"*", "1", ".", " ", "&", ";">>), Element("#comment"),
            Element("span"), Element("i"), Image(<<"_">>)},
           DefaultOptions, FALSE, 1) }

\* new Extractor(input, options), before extract is called.
Init ==
  /\ \E sc \in Scenarios :
       /\ tree \in Trees(sc.kinds, sc.roots, MaxNodes - sc.fewer)
       /\ options = sc.options
       /\ isDomReal = sc.real
  /\ pc = "start"
  /\ stack = <<>>
  /\ document = NewDocument
  /\ justAppendedBr = FALSE
  /\ inBlockquote = FALSE
  /\ groupWithNext = FALSE
  /\ visited = {}
  /\ result = <<>>

Spec == Init /\ [][Next]_vars

\* ------------------------------------------- the Document used directly

\* The segments a caller pushes and the arguments it gives break and start
\* (<<>>: none).
ClientSegments ==
  {Span(<<"a">>, FALSE, 0), Span(<<" ">>, FALSE, 0), Str(<<"\n">>, 0)}

ClientArgs == {<<>>, <<"Paragraph">>, <<"ListItem", TRUE, 0>>}

\* The calls of a caller stop once a method threw.
ClientCalls == pc = "client"

\* A finish that appends a block is called while fewer than MaxFinishes are out.
ClientMayFinish ==
  Len(document.blocks) < MaxFinishes \/ ~IsPresent(document.segments)

ClientLeaves(D) ==
  /\ document' = D
  /\ pc' = IF D.threw THEN "threw" ELSE pc
  /\ UNCHANGED <<tree, options, isDomReal, stack, justAppendedBr,
                 groupWithNext, visited, result>>

\* document.push(segment)
ClientPush ==
  /\ ClientCalls
  /\ Len(document.segments) < MaxSegments
  /\ \E seg \in ClientSegments : ClientLeaves(DocPush(Doc, seg))
  /\ UNCHANGED inBlockquote

\* document.break(...args)
ClientBreak ==
  /\ ClientCalls
  /\ ClientMayFinish
  /\ \E args \in ClientArgs : ClientLeaves(DocBreak(Doc, args, inBlockquote, 0))
  /\ UNCHANGED inBlockquote

\* document.finish()
ClientFinish ==
  /\ ClientCalls
  /\ ClientMayFinish
  /\ LET D == DocFinish(Doc, inBlockquote)
     IN ClientLeaves([D EXCEPT !.ops = <<[op |-> "finish", seg |-> Str(<<>>, 0)]>>])
  /\ UNCHANGED inBlockquote

\* document.start(args)
ClientStart ==
  /\ ClientCalls
  /\ \E args \in ClientArgs :
       LET D == DocStart(Doc, args, 0)
       IN ClientLeaves([D EXCEPT !.ops = <<[op |-> "start", seg |-> Str(<<>>, 0)]>>])
  /\ UNCHANGED inBlockquote

\* The extractor the Document was made with enters or leaves a blockquote.
ClientBlockquote ==
  /\ ClientCalls
  /\ inBlockquote' = ~inBlockquote
  /\ ClientLeaves(Doc)

NextDoc ==
  \/ ClientPush
  \/ ClientBreak
  \/ ClientFinish
  \/ ClientStart
  \/ ClientBlockquote

\* new Document(extractor)
InitDoc ==
  /\ tree = <<Element("div")>>
  /\ options = DefaultOptions
  /\ isDomReal = FALSE
  /\ pc = "client"
  /\ stack = <<>>
  /\ document = DocStart(NewDocument, <<>>, 0)
  /\ justAppendedBr = FALSE
  /\ inBlockquote = FALSE
  /\ groupWithNext = FALSE
  /\ visited = {}
  /\ result = <<>>

SpecDoc == InitDoc /\ [][NextDoc]_vars

\* ----------------------------------------------------------------- claims

HasBlockquoteAncestor(n) ==
  \E a \in AncestorSet(tree, n) : tree[a].tag = "blockquote"

\* A buffer holds a Span with text that is not all whitespace.
HoldsText(segs) ==
  \E i \in 1..Len(segs) :
    /\ segs[i].type = "Span"
    /\ \E j \in 1..Len(segs[i].text) : segs[i].text[j] \notin {" ", "\n", "\t"}

\* The calls op made on the Document by the step just taken.
Made(D, op) == {i \in 1..Len(D.ops) : D.ops[i].op = op}

\* A string segment "\n".
IsNewline(seg) == seg.type = "String" /\ seg.text = <<"\n">>

\* C1: a block appended by finish whose segments were all pushed by nodes
\* without a blockquote ancestor is not prefixed with "> "; so inline content
\* before a blockquote in the same parent comes out without the prefix.
C1_NoPrefixOutsideBlockquote ==
  \A i \in 1..Len(document.blocks) :
    LET b == document.blocks[i]
    IN (\A n \in b.by : n # 0 /\ ~HasBlockquoteAncestor(n))
       => ~b.prefixed

\* C2: every block whose segments were pushed by descendants of a blockquote
\* is appended with the "> " prefix, whatever the nesting of blockquotes.
C2_PrefixInsideBlockquote ==
  \A i \in 1..Len(document.blocks) :
    LET b == document.blocks[i]
    IN (\A n \in b.by : n # 0 /\ HasBlockquoteAncestor(n))
       => b.prefixed

\* C3: a br visited while a br is pending breaks the paragraph, clears the
\* flag and pushes nothing; a br visited while none is pending only sets the
\* flag (no push, no block boundary); the node visited after a pending br,
\* if no br, has exactly one "\n" pushed, before anything else it does, and
\* no "\n" is pushed otherwise.
C3_LineBreakCoalescing ==
  [][\A n \in visited' \ visited :
       (~(tree[n].tag \in {"head", "style", "script", "noscript"}) /\ pc' # "threw"
        /\ (options.excludeHidden => IsElementVisible(tree, n, options, isDomReal))
        /\ ~(options.hasExclude /\ tree[n].cls \in options.exclude))
       => LET ops == document'.ops
              newlines == {i \in Made(document', "push") : IsNewline(ops[i].seg)}
          IN /\ (tree[n].tag = "br" /\ justAppendedBr) =>
                  /\ ~justAppendedBr'
                  /\ Len(ops) = 1 /\ ops[1].op = "break"
                  /\ document'.args = <<"Paragraph">>
                  /\ document'.segments = <<>>
             /\ (tree[n].tag = "br" /\ ~justAppendedBr) =>
                  /\ justAppendedBr'
                  /\ ops = <<>>
                  /\ document'.segments = document.segments
                  /\ document'.content = document.content
             /\ (tree[n].tag # "br" /\ justAppendedBr) =>
                  /\ ~justAppendedBr'
                  /\ newlines = {1}
             /\ (tree[n].tag # "br" /\ ~justAppendedBr) =>
                  /\ ~justAppendedBr'
                  /\ newlines = {}]_vars

\* A lone br between two texts: the second text's visit pushed one "\n", then
\* its Span, into the buffer the first text is in.
C3_Witness ==
  /\ pc = "run"
  /\ Len(document.ops) = 2
  /\ IsNewline(document.ops[1].seg)
  /\ Len(document.segments) = 3
  /\ document.segments[1].type = "Span"
  /\ IsNewline(document.segments[2])
  /\ document.segments[3].type = "Span"

\* The tree of <ul><li>x</li><li>y</li></ul>.
ListOfTwo(list, x, y) ==
  <<Element(list),
    [Element("li") EXCEPT !.parent = 1], [Text(x) EXCEPT !.parent = 2],
    [Element("li") EXCEPT !.parent = 1], [Text(y) EXCEPT !.parent = 4]>>

\* C4, as stated: for <ul><li>a</li><li>b</li></ul> the content before
\* trimming is "* a\n\n* b\n\n".
C4_AsStated ==
  (pc = "done" /\ tree = ListOfTwo("ul", <<"a">>, <<"b">>))
  => document.content =
       <<"*", " ", "a", "\n", "\n", "*", " ", "b", "\n", "\n">>

\* C4, amended: for <ul><li>a</li><li>b</li></ul> the content before trimming
\* is "* a\n* b\n\n": each item is "* ", its text and one "\n", and only the
\* item without a following sibling element gets a second "\n".
C4_ListItemsOneNewline ==
  (pc = "done" /\ tree = ListOfTwo("ul", <<"a">>, <<"b">>))
  => /\ document.content = <<"*", " ", "a", "\n", "*", " ", "b", "\n", "\n">>
     /\ Len(document.blocks) = 2
     /\ document.blocks[1].text = <<"*", " ", "a", "\n">>
     /\ document.blocks[2].text = <<"*", " ", "b", "\n", "\n">>

C4_Witness ==
  /\ pc = "done"
  /\ tree = ListOfTwo("ul", <<"a">>, <<"b">>)
  /\ document.content = <<"*", " ", "a", "\n", "*", " ", "b", "\n", "\n">>

\* The prefix expected of the li that is node n: its place among the element
\* children of an ol, or the bullet.
ExpectedOrdinal(n) ==
  IF tree[n].parent # 0 /\ tree[tree[n].parent].tag = "ol"
  THEN 1 + Cardinality({m \in 1..(n - 1) :
             tree[m].parent = tree[n].parent /\ tree[m].tag # "#text"
             /\ tree[m].tag # "#comment"})
  ELSE 0

ExpectedPrefix(n) ==
  IF ExpectedOrdinal(n) = 0 THEN <<"*", " ">>
  ELSE <<DigitChars[ExpectedOrdinal(n) + 1], ".", " ">>

\* C5: the ordinal of an li under an ol is 1 plus the number of its preceding
\* sibling elements, whatever the start attribute; an li elsewhere has no
\* ordinal and the "* " prefix.
C5_OrdinalFromSiblings ==
  /\ (Len(document.args) = 3 /\ document.args[1] = "ListItem")
     => /\ tree[document.owner].tag = "li"
        /\ document.args[3] = ExpectedOrdinal(document.owner)
  /\ \A i \in 1..Len(document.blocks) :
       LET b == document.blocks[i]
       IN b.type = "ListItem"
          => /\ tree[b.owner].tag = "li"
             /\ SubSeq(b.text, 1, Len(ExpectedPrefix(b.owner)))
                  = ExpectedPrefix(b.owner)

\* The second li of an ol with start = 3 came out as "2. a".
C5_Witness ==
  \E i \in 1..Len(document.blocks) :
    /\ document.blocks[i].text = <<"2", ".", " ", "a", "\n", "\n">>
    /\ tree[tree[document.blocks[i].owner].parent].start = 3

\* Sequence p starts sequence s.
StartsWith(s, p) == Len(p) <= Len(s) /\ SubSeq(s, 1, Len(p)) = p

\* C6: finish, alone or in break, leaves the content as it is when the open
\* buffer holds no Span with text that is not whitespace, blockquote or not;
\* the content changes only by a finish on a buffer that holds one, and only
\* by growing at its end.
C6_BlankBufferAddsNothing ==
  [][/\ ~HoldsText(document.segments)
          => document'.content = document.content
     /\ document'.content # document.content
          => /\ HoldsText(document.segments)
             /\ Made(document', "finish") \cup Made(document', "break") # {}
             /\ StartsWith(document'.content, document.content)]_vars

\* finish was called in a blockquote on a buffer of a blank Span and a "\n",
\* after a block had been appended, and the content is that block still.
C6_Witness ==
  /\ Made(document, "finish") # {}
  /\ inBlockquote
  /\ Len(document.segments) = 2
  /\ ~HoldsText(document.segments)
  /\ Len(document.blocks) = 1
  /\ document.content = document.blocks[1].text

\* Node n is one process returns from at once.
IsSkippedNode(n) ==
  \/ tree[n].tag \in {"head", "style", "script", "noscript"}
  \/ /\ options.hasExclude
     /\ tree[n].tag \notin {"#text", "#comment"}
     /\ tree[n].cls \in options.exclude
  \/ /\ options.excludeHidden
     /\ ~IsElementVisible(tree, n, options, isDomReal)

\* C7: process called on a skipped node (a head, style, script or noscript, a
\* node an exclude selector matches, a hidden element when excludeHidden is on
\* and a layout engine there) changes neither the Document's content, buffer
\* and pending block nor the three flags, starts no processing of children,
\* and no descendant of a skipped node is ever processed.
C7_SkipChangesNothing ==
  [][/\ \A n \in visited' \ visited :
          IsSkippedNode(n)
          => /\ document'.content = document.content
             /\ document'.segments = document.segments
             /\ document'.args = document.args
             /\ document'.ops = <<>>
             /\ justAppendedBr' = justAppendedBr
             /\ inBlockquote' = inBlockquote
             /\ groupWithNext' = groupWithNext
             /\ Len(stack') = Len(stack)
     /\ \A m \in visited' :
          \A a \in AncestorSet(tree, m) : ~IsSkippedNode(a)]_vars

\* extract is done; an element that was skipped for its tag, and one for being
\* hidden, has a child, which was never processed, and text came out.
C7_Witness ==
  /\ pc = "done"
  /\ result # <<>>
  /\ \E n \in visited :
       /\ IsSkippedNode(n)
       /\ ChildNodes(tree, n) # <<>>
       /\ \A i \in 1..Len(ChildNodes(tree, n)) :
            ChildNodes(tree, n)[i] \notin visited

\* C8: after start with no block kind (the constructor's, or break's without
\* arguments), a finish on a buffer with a non-blank Span appends the buffer
\* rendered as a Paragraph: its text, then "\n\n".
C8_DefaultBlockIsParagraph ==
  [][(/\ Len(document.args) = 0
      /\ HoldsText(document.segments)
      /\ Made(document', "finish") \cup Made(document', "break") # {})
     => /\ ~document'.threw
        /\ document'.content =
             document.content \o (IF inBlockquote THEN <<">", " ">> ELSE <<>>)
             \o Stringify(document.segments) \o <<"\n", "\n">>]_vars

\* C9: with links on, once "[" is pushed for an anchor no step breaks the
\* block before the anchor's "](href)" is pushed.
C9_LinkNeverWrapsBreak ==
  [][(\E i \in 1..Len(stack) : stack[i].after = "link")
     => Made(document', "break") = {}]_vars

\* C10: when a block-initiating element takes the grouping flag instead of
\* breaking the paragraph, the open buffer holds no non-blank Span; the flag
\* is cleared by that element, and is clear when processFlowContent returns.
C10_GroupingNeverMergesContent ==
  [][/\ (visited' # visited /\ groupWithNext /\ ~groupWithNext')
          => /\ ~HoldsText(document.segments)
             /\ Made(document', "break") = {}
     /\ (pc = "run" /\ Len(stack') < Len(stack)
         /\ Top.after \in {"flow", "blockquote"})
          => ~groupWithNext']_vars

====
